---- MODULE Spec2Model ----
(***************************************************************************)
(* Model of scripts/hooks/sync-usage.js (ClaudeScope usage sync).          *)
(*                                                                         *)
(* Strings that the code searches (model identifiers) are sequences of     *)
(* one-character strings, so that String.prototype.includes is a real      *)
(* substring search.  Money is exact: rates are held in 1/100 USD per      *)
(* million tokens and costs in micro-USD, so Math.round(cost * 1e6) / 1e6  *)
(* is integer rounding (half up).  IEEE-754 error of the JavaScript        *)
(* arithmetic is not modelled.                                             *)
(***************************************************************************)
EXTENDS Integers, Sequences, FiniteSets, TLC

VARIABLES
  \* ---- calculateCost under test (SpecCost)
  cUsage, cFamily, cCost, cPrevCost, cField,
  \* ---- getModelFamily under test (SpecFamily)
  modelString, familyOut,
  \* ---- parseSessionFile under test (SpecParse)
  lines, agg,
  \* ---- the file system and the remote store (Spec)
  hasProjectsDir,   \* fs.existsSync(projectsDir)
  projectDirs,      \* fs.readdirSync(projectsDir), in walk order
  ledger,           \* content of ~/.claude/.usage-synced.json
  remote,           \* rows of usage_records, by session_id (one machine)
  now,              \* Date.now()
  \* ---- the process: main and syncAll (Spec)
  pc,               \* "idle", "walk", "await", "resolved", "done", "rejected",
                    \* "exited", "stopped"
  dryRun,           \* DRY_RUN
  machineId,        \* CONFIG.MACHINE_ID
  missingConfig,    \* whether a setting of CONFIG was missing at startup
  synced,           \* syncAll's local `synced`
  pos,              \* position of the two nested loops in WorkList
  uploaded, skipped,
  inflight,         \* the record handed to uploadRecord, <<>> when none
  \* ---- observation of the runs (Spec)
  runs,             \* processes started so far
  uploadCalls,      \* uploadRecord calls so far, by session id
  okUploads,        \* session ids for which uploadRecord has returned normally
  reuploaded,       \* session ids uploaded while the ledger file held them
  emptySeen,        \* session ids that took the empty branch of a non-dry run
  uploadAfterEmpty, \* session ids uploaded after they took that branch
  lastOutcome,      \* what happened to the file processed last
  ledgerAtIssue,    \* the ledger when the last uploadRecord call was made
  ledgerAtStart, remoteAtStart,   \* ledger and remote when the run started
  runUploads, runMarks,           \* uploadRecord / markSynced calls of the run
  runClean, prevClean,            \* see BeginRun
  runParsed,          \* parseSessionFile calls of the run
  stoppedAfterUpload, \* session ids whose process was stopped between the
                      \* return of uploadRecord and markSynced
  uploadAfterOk       \* session ids uploaded again after an uploadRecord call
                      \* for them had returned normally

costVars   == <<cUsage, cFamily, cCost, cPrevCost, cField>>
familyVars == <<modelString, familyOut>>
parseVars  == <<lines, agg>>

fsVars     == <<hasProjectsDir, projectDirs, ledger, remote, now>>
procVarsButPc == <<dryRun, machineId, missingConfig, synced, pos, uploaded, skipped, inflight>>
procVars   == <<pc, procVarsButPc>>
obsVars    == <<runs, uploadCalls, okUploads, reuploaded, emptySeen,
                uploadAfterEmpty, lastOutcome, ledgerAtIssue, ledgerAtStart,
                remoteAtStart, runUploads, runMarks, runClean, prevClean,
                runParsed, stoppedAfterUpload, uploadAfterOk>>
driverVars == <<fsVars, procVars, obsVars>>
pureVars   == <<costVars, familyVars, parseVars>>

vars == <<costVars, familyVars, parseVars, driverVars>>

(***************************************************************************)
(* Bounds                                                                  *)
(***************************************************************************)
MaxTokens == 4
MaxModelLen == 14
MaxLines == 3
MaxRuns == 2

(***************************************************************************)
(* Pricing table and family resolver                                       *)
(***************************************************************************)
Max(a, b) == IF a >= b THEN a ELSE b

\* USD per 1M tokens, times 100 (0.08 -> 8, 18.75 -> 1875)
PRICING ==
  [f \in {"claude-opus-4.6", "claude-opus-4", "claude-sonnet-4",
          "claude-haiku-4.5", "default"} |->
     CASE f = "claude-opus-4.6"  ->
            [input |-> 500, output |-> 2500, cache_read |-> 50, cache_write |-> 625]
       [] f = "claude-opus-4"    ->
            [input |-> 1500, output |-> 7500, cache_read |-> 150, cache_write |-> 1875]
       [] f = "claude-sonnet-4"  ->
            [input |-> 300, output |-> 1500, cache_read |-> 30, cache_write |-> 375]
       [] f = "claude-haiku-4.5" ->
            [input |-> 80, output |-> 400, cache_read |-> 8, cache_write |-> 100]
       [] OTHER                  ->
            [input |-> 500, output |-> 2500, cache_read |-> 50, cache_write |-> 625]]

Families == DOMAIN PRICING

\* String.prototype.includes on character sequences
includes(s, t) ==
  \E i \in 0..(Len(s) - Len(t)) : SubSeq(s, i + 1, i + Len(t)) = t

S_opus46 == <<"o","p","u","s","-","4","-","6">>
S_opus   == <<"o","p","u","s">>
S_haiku  == <<"h","a","i","k","u">>
S_sonnet == <<"s","o","n","n","e","t">>
S_unknown == <<"u","n","k","n","o","w","n">>

\* getModelFamily with the generic "opus" test ahead of "opus-4-6"
getModelFamilyOpusFirst(s) ==
  IF includes(s, S_opus) THEN "claude-opus-4"
  ELSE IF includes(s, S_opus46) THEN "claude-opus-4.6"
  ELSE IF includes(s, S_haiku) THEN "claude-haiku-4.5"
  ELSE IF includes(s, S_sonnet) THEN "claude-sonnet-4"
  ELSE "default"

getModelFamily(s) ==
  IF includes(s, S_opus46) THEN "claude-opus-4.6"
  ELSE IF includes(s, S_opus) THEN "claude-opus-4"
  ELSE IF includes(s, S_haiku) THEN "claude-haiku-4.5"
  ELSE IF includes(s, S_sonnet) THEN "claude-sonnet-4"
  ELSE "default"

(***************************************************************************)
(* Cost calculator                                                         *)
(***************************************************************************)
UsageFields == {"input_tokens", "output_tokens",
                "cache_creation_input_tokens", "cache_read_input_tokens"}

\* usage.<field> || 0 : a usage object is a function on a subset of UsageFields
tok(usage, f) == IF f \in DOMAIN usage THEN usage[f] ELSE 0

\* Math.round(x) for x = n / 100: floor(x + 0.5)
MathRound100(n) == (n + 50) \div 100

normalInput(usage) ==
  tok(usage, "input_tokens") - tok(usage, "cache_read_input_tokens")
    - tok(usage, "cache_creation_input_tokens")

\* inputComponent without the Math.max(0, ...) clamp
inputComponentUnclamped(usage, p) == normalInput(usage) * p.input

\* the first summand of cost, in 1e-8 USD
inputComponent(usage, p) == Max(0, normalInput(usage)) * p.input

\* result in micro-USD
calculateCost(usage, modelFamily) ==
  LET p == IF modelFamily \in DOMAIN PRICING THEN PRICING[modelFamily]
           ELSE PRICING["default"]
      cost == inputComponent(usage, p)
              + tok(usage, "cache_creation_input_tokens") * p.cache_write
              + tok(usage, "cache_read_input_tokens") * p.cache_read
              + tok(usage, "output_tokens") * p.output
  IN MathRound100(cost)

(***************************************************************************)
(* Session parser                                                          *)
(*                                                                         *)
(* A line of a log file is a record                                        *)
(*   ok        : JSON.parse succeeds and yields an object                  *)
(*   timestamp : entry.timestamp, 0 when absent (falsy)                    *)
(*   direct    : <<>> or <<[requestId, usage, model]>>, the direct shape   *)
(*               entry.requestId / entry.message.usage / .model            *)
(*   nested    : <<>> or <<[requestId, usage, model]>>, the nested shape   *)
(*               entry.data.message.requestId / .message.usage / .model    *)
(* A requestId of "" and a model of <<>> stand for a missing (falsy) one.  *)
(***************************************************************************)
orUnknown(model) == IF model = <<>> THEN S_unknown ELSE model

\* mapSet that keeps the first value of a key (first write wins)
mapSetKeepFirst(m, k, v) ==
  IF \E i \in 1..Len(m) : m[i].requestId = k THEN m ELSE Append(m, v)

\* Map.prototype.set: an existing key keeps its place, a new key goes last
mapSet(m, k, v) ==
  IF \E i \in 1..Len(m) : m[i].requestId = k
    THEN [i \in 1..Len(m) |-> IF m[i].requestId = k THEN v ELSE m[i]]
    ELSE Append(m, v)

\* the parts of a line that carry usage, in the order the code visits them
usageEntries(line) ==
  LET d == IF line.direct # <<>> /\ line.direct[1].requestId # ""
             THEN <<line.direct[1]>> ELSE <<>>
      n == IF line.nested # <<>> /\ line.nested[1].requestId # ""
             THEN <<line.nested[1]>> ELSE <<>>
  IN d \o n

RECURSIVE setAll(_, _)
setAll(m, es) ==
  IF es = <<>> THEN m
  ELSE setAll(mapSet(m, es[1].requestId,
                     [requestId |-> es[1].requestId,
                      usage |-> es[1].usage,
                      model |-> orUnknown(es[1].model)]),
              Tail(es))

\* one iteration of the for-of loop over the lines (try / catch included)
scanLine(st, line) ==
  IF ~line.ok THEN st
  ELSE [sessionStart |-> IF line.timestamp # 0 /\ st.sessionStart = 0
                           THEN line.timestamp ELSE st.sessionStart,
        sessionEnd   |-> IF line.timestamp # 0 THEN line.timestamp
                           ELSE st.sessionEnd,
        requestMap   |-> setAll(st.requestMap, usageEntries(line))]

RECURSIVE scanLinesStopAtError(_, _)
\* scanLines with the try around the loop: the first unparseable line ends it
scanLinesStopAtError(st, ls) ==
  IF ls = <<>> \/ ~ls[1].ok THEN st
  ELSE scanLinesStopAtError(scanLine(st, ls[1]), Tail(ls))

RECURSIVE scanLines(_, _)
\* the for-of loop of lines 88-115
scanLines(st, ls) ==
  IF ls = <<>> THEN st ELSE scanLines(scanLine(st, ls[1]), Tail(ls))

\* obj[family] = (obj[family] || 0) + d, keys kept in insertion order
addTo(obj, family, d) ==
  IF \E i \in 1..Len(obj) : obj[i].family = family
    THEN [i \in 1..Len(obj) |->
            IF obj[i].family = family
              THEN [family |-> family, n |-> obj[i].n + d] ELSE obj[i]]
    ELSE Append(obj, [family |-> family, n |-> d])

ZeroUsage == [f \in UsageFields |-> 0]

\* addRequest that prices every request at the default rates
addRequestDefaultRate(a, req) ==
  LET family  == getModelFamily(req.model)
      reqCost == calculateCost([f \in UsageFields |-> tok(req.usage, f)], "default")
  IN [totalUsage |-> [f \in UsageFields |-> a.totalUsage[f] + tok(req.usage, f)],
      totalCost  |-> a.totalCost + reqCost,
      modelCount |-> addTo(a.modelCount, family, 1),
      modelCost  |-> addTo(a.modelCost, family, reqCost)]

\* one iteration of the for-of loop over requestMap.values()
addRequest(a, req) ==
  LET family  == getModelFamily(req.model)
      reqCost == calculateCost([f \in UsageFields |-> tok(req.usage, f)], family)
  IN [totalUsage |-> [f \in UsageFields |-> a.totalUsage[f] + tok(req.usage, f)],
      totalCost  |-> a.totalCost + reqCost,
      modelCount |-> addTo(a.modelCount, family, 1),
      modelCost  |-> addTo(a.modelCost, family, reqCost)]

RECURSIVE addRequests(_, _)
addRequests(a, reqs) ==
  IF reqs = <<>> THEN a ELSE addRequests(addRequest(a, reqs[1]), Tail(reqs))

\* primaryOf with ties going to the entry inserted last
primaryOfLast(modelCount) ==
  IF modelCount = <<>> THEN "unknown"
  ELSE LET i == CHOOSE i \in 1..Len(modelCount) :
                  /\ \A j \in 1..Len(modelCount) : modelCount[j].n <= modelCount[i].n
                  /\ \A j \in (i + 1)..Len(modelCount) : modelCount[j].n < modelCount[i].n
       IN modelCount[i].family

\* Object.entries(modelCount).sort((a, b) => b[1] - a[1])[0]?.[0] || "unknown"
\* (the sort is stable: the first entry with the largest count)
primaryOf(modelCount) ==
  IF modelCount = <<>> THEN "unknown"
  ELSE LET i == CHOOSE i \in 1..Len(modelCount) :
                  /\ \A j \in 1..Len(modelCount) : modelCount[j].n <= modelCount[i].n
                  /\ \A j \in 1..(i - 1) : modelCount[j].n < modelCount[i].n
       IN modelCount[i].family

parseSessionFile(ls) ==
  LET st == scanLines([sessionStart |-> 0, sessionEnd |-> 0, requestMap |-> <<>>], ls)
      a  == addRequests([totalUsage |-> ZeroUsage, totalCost |-> 0,
                         modelCount |-> <<>>, modelCost |-> <<>>], st.requestMap)
  IN [totalUsage   |-> a.totalUsage,
      totalCost    |-> a.totalCost,
      primaryModel |-> primaryOf(a.modelCount),
      modelCount   |-> a.modelCount,
      modelCost    |-> a.modelCost,
      sessionStart |-> st.sessionStart,
      sessionEnd   |-> st.sessionEnd]

(***************************************************************************)
(* The pure functions as state machines: the inputs grow step by step and  *)
(* each step applies the function to the new input.                        *)
(***************************************************************************)

\* ---- calculateCost: one token count is raised by one
CostFamilies == Families \cup {"unknown"}

CostStart ==
  /\ cUsage = ZeroUsage
  /\ cFamily \in CostFamilies
  /\ cCost = calculateCost(cUsage, cFamily)
  /\ cPrevCost = cCost
  /\ cField = "none"

CostIdle ==
  /\ cUsage = ZeroUsage
  /\ cFamily = "default"
  /\ cCost = 0
  /\ cPrevCost = 0
  /\ cField = "none"

IncreaseTokens ==
  \E f \in UsageFields :
    /\ cUsage[f] < MaxTokens
    /\ cUsage' = [cUsage EXCEPT ![f] = @ + 1]
    /\ cField' = f
    /\ cPrevCost' = cCost
    /\ cCost' = calculateCost(cUsage', cFamily)
    /\ UNCHANGED <<cFamily, familyVars, parseVars, driverVars>>

\* ---- getModelFamily: a fragment is appended to the model string
Fragments ==
  { S_opus, S_haiku, S_sonnet, <<"-","4">>, <<"-","6">>, <<"c","-">>,
    <<"o","p">>, <<"u","s">>, <<"O","p","u","s">> }

FamilyStart ==
  /\ modelString = <<>>
  /\ familyOut = getModelFamily(modelString)

AppendFragment ==
  \E f \in Fragments :
    /\ Len(modelString) + Len(f) <= MaxModelLen
    /\ modelString' = modelString \o f
    /\ familyOut' = getModelFamily(modelString')
    /\ UNCHANGED <<costVars, parseVars, driverVars>>

\* ---- parseSessionFile: a line is appended to the file
RequestIds == {"r1", "r2"}
Ua == [input_tokens |-> 2, output_tokens |-> 1,
       cache_creation_input_tokens |-> 1, cache_read_input_tokens |-> 0]
Ub == [input_tokens |-> 3, cache_read_input_tokens |-> 2]
Uc == [cache_creation_input_tokens |-> 2]
M_opus   == <<"c","-">> \o S_opus \o <<"-","4">>
M_sonnet == <<"c","-">> \o S_sonnet

Payloads ==
  { [requestId |-> "r1", usage |-> Ua, model |-> M_opus],
    [requestId |-> "r1", usage |-> Ub, model |-> M_sonnet],
    [requestId |-> "r2", usage |-> Ua, model |-> M_sonnet],
    [requestId |-> "r2", usage |-> Ub, model |-> M_opus],
    [requestId |-> "r1", usage |-> Uc, model |-> <<>>],
    [requestId |-> "",   usage |-> Ua, model |-> M_opus] }

NestedPayloads ==
  { [requestId |-> "r1", usage |-> Ub, model |-> M_sonnet],
    [requestId |-> "r2", usage |-> Ua, model |-> <<>>] }

Timestamps == {0, 1, 2}

MalformedLine == [ok |-> FALSE, timestamp |-> 0, direct |-> <<>>, nested |-> <<>>]

LogLines ==
  { MalformedLine }
  \cup { [ok |-> TRUE, timestamp |-> t, direct |-> <<>>, nested |-> <<>>] :
           t \in Timestamps }
  \cup { [ok |-> TRUE, timestamp |-> t, direct |-> <<p>>, nested |-> <<>>] :
           t \in Timestamps \ {2}, p \in Payloads }
  \cup { [ok |-> TRUE, timestamp |-> 0, direct |-> <<>>, nested |-> <<p>>] :
           p \in NestedPayloads }
  \cup { [ok |-> TRUE, timestamp |-> 0,
          direct |-> <<[requestId |-> "r1", usage |-> Ua, model |-> M_opus]>>,
          nested |-> <<p>>] : p \in NestedPayloads }

ParseStart ==
  /\ lines = <<>>
  /\ agg = parseSessionFile(lines)

AppendLine ==
  \E l \in LogLines :
    /\ Len(lines) < MaxLines
    /\ lines' = Append(lines, l)
    /\ agg' = parseSessionFile(lines')
    /\ UNCHANGED <<costVars, familyVars, driverVars>>

(***************************************************************************)
(* The file system                                                         *)
(*                                                                         *)
(* projectDirs is what readdirSync(projectsDir) returns, in walk order:    *)
(* entries [isDirectory, name, files]; name is the encoded directory name  *)
(* split at "-"; files are [base, ext, content] with content the lines of  *)
(* the file.  The ledger file is [kind, map]:                              *)
(*   "absent"     no file              "garbage"   JSON.parse throws       *)
(*   "null"       the JSON text null   "primitive" a JSON number, string   *)
(*   "array"      a JSON array                     or boolean              *)
(*   "object"     a JSON object, map[id] its value for id, 0 when absent   *)
(***************************************************************************)
SessionIds == {"s1", "s2"}

NoEntries == [id \in SessionIds |-> 0]
NoRows    == [id \in SessionIds |-> <<>>]
NoCalls   == [id \in SessionIds |-> 0]

LedgerKinds == {"absent", "garbage", "null", "primitive", "array", "object"}

\* a session file with timestamps, one unparseable line and no usage
F_TimestampsOnly ==
  << [ok |-> TRUE, timestamp |-> 1, direct |-> <<>>, nested |-> <<>>],
     MalformedLine,
     [ok |-> TRUE, timestamp |-> 2, direct |-> <<>>, nested |-> <<>>] >>

\* a session file with two requests
F_Usage ==
  << [ok |-> TRUE, timestamp |-> 1,
      direct |-> <<[requestId |-> "r1", usage |-> Ua, model |-> M_opus]>>,
      nested |-> <<>>],
     [ok |-> TRUE, timestamp |-> 2, direct |-> <<>>,
      nested |-> <<[requestId |-> "r2", usage |-> Ub, model |-> M_sonnet]>>] >>

\* a session file whose only request has cache tokens and nothing else
F_CacheOnly ==
  << [ok |-> TRUE, timestamp |-> 0,
      direct |-> <<[requestId |-> "r1", usage |-> Uc, model |-> M_sonnet]>>,
      nested |-> <<>>] >>

FileContents == {F_TimestampsOnly, F_Usage, F_CacheOnly}

\* a session file with one request, no model and no timestamp on any line
F_UsageNoTimestamps ==
  << [ok |-> TRUE, timestamp |-> 0,
      direct |-> <<[requestId |-> "r1", usage |-> Ub, model |-> <<>>]>>,
      nested |-> <<>>] >>

\* no file <id>.jsonl, or one with any of the contents
SessionFile(id) ==
  {<<>>} \cup { <<[base |-> id, ext |-> "jsonl", content |-> c]>> : c \in FileContents }

OtherFile(base) == [base |-> base, ext |-> "txt", content |-> <<>>]

\* the listings of the projects directory: an entry that is no directory, a
\* directory with up to two session files, and a directory with up to one,
\* whose id may also occur in the first
Listings ==
  { << [isDirectory |-> FALSE, name |-> <<"README">>, files |-> <<>>],
       [isDirectory |-> TRUE, name |-> <<"", "home", "web">>,
        files |-> a \o b \o <<OtherFile("s2")>>],
       [isDirectory |-> TRUE, name |-> <<"", "srv", "api", "">>,
        files |-> <<OtherFile("s1")>> \o c] >> :
      a \in SessionFile("s1"), b \in SessionFile("s2"),
      c \in SessionFile("s1")
             \cup {<<[base |-> "s1", ext |-> "jsonl",
                      content |-> F_UsageNoTimestamps]>>} }

\* files.filter((f) => f.endsWith(".jsonl"))
jsonlFiles(files) == SelectSeq(files, LAMBDA f : f.ext = "jsonl")

RECURSIVE walk(_, _)
\* the (directory, file) pairs the two nested loops visit, in order
walk(dirs, i) ==
  IF i > Len(dirs) THEN <<>>
  ELSE (IF dirs[i].isDirectory
          THEN LET fs == jsonlFiles(dirs[i].files)
               IN [k \in 1..Len(fs) |-> [dir |-> i, file |-> fs[k]]]
          ELSE <<>>) \o walk(dirs, i + 1)

WorkList == walk(projectDirs, 1)

\* path.basename(file, ".jsonl")
sessionIdOf(file) == file.base

\* encoded.split("-").pop() || encoded
extractProjectName(name) ==
  IF name[Len(name)] # "" THEN <<name[Len(name)]>> ELSE name

(***************************************************************************)
(* The sync ledger                                                         *)
(***************************************************************************)
\* try { JSON.parse(readFileSync(ledgerPath)) } catch { {} }
readLedger(l) ==
  IF l.kind \in {"absent", "garbage"}
    THEN [kind |-> "object", map |-> NoEntries] ELSE l

getAlreadySynced(l) == readLedger(l)

\* synced[sessionId] throws a TypeError when synced is null
lookupThrows(sy) == sy.kind = "null"

\* isSynced that never finds an entry
isSyncedNever(sy, id) == FALSE

\* the truth value of synced[sessionId]
isSynced(sy, id) == sy.kind = "object" /\ sy.map[id] # 0

\* markSynced whose write is lost
markSyncedLost(l, id, t) == [threw |-> FALSE, ledger |-> l]

\* markSynced(sessionId) at time t on ledger file l: whether it threw, and
\* the ledger file afterwards.  Setting a property of null or (the module is
\* strict) of a primitive throws; JSON.stringify of an array leaves out the
\* property that was set on it.
markSynced(l, id, t) ==
  LET sy == readLedger(l)
  IN IF sy.kind \in {"null", "primitive"} THEN [threw |-> TRUE, ledger |-> l]
     ELSE IF sy.kind = "array" THEN [threw |-> FALSE, ledger |-> l]
     ELSE [threw |-> FALSE,
           ledger |-> [kind |-> "object", map |-> [sy.map EXCEPT ![id] = t]]]

\* the ledger file holds an entry for id
InLedger(l, id) == l.kind = "object" /\ l.map[id] # 0

(***************************************************************************)
(* syncAll                                                                 *)
(***************************************************************************)
current == WorkList[pos]
currentId == sessionIdOf(current.file)
currentAgg == parseSessionFile(current.file.content)

\* syncAll without the empty test of line 265
isEmptySessionNever(a) == FALSE

\* totalUsage.input_tokens === 0 && totalUsage.output_tokens === 0
isEmptySession(a) ==
  a.totalUsage["input_tokens"] = 0 /\ a.totalUsage["output_tokens"] = 0

\* the record of lines 275-287
buildRecord(w, a, mid) ==
  [machine_id    |-> mid,
   session_id    |-> sessionIdOf(w.file),
   model         |-> a.primaryModel,
   project_slug  |-> extractProjectName(projectDirs[w.dir].name),
   input_tokens  |-> a.totalUsage["input_tokens"],
   output_tokens |-> a.totalUsage["output_tokens"],
   cache_write_tokens |-> a.totalUsage["cache_creation_input_tokens"],
   cache_read_tokens  |-> a.totalUsage["cache_read_input_tokens"],
   cost_usd      |-> a.totalCost,
   session_start |-> IF a.sessionStart # 0
                       THEN [from |-> "log", t |-> a.sessionStart]
                       ELSE [from |-> "birthtime", t |-> 0],
   session_end   |-> IF a.sessionEnd # 0
                       THEN [from |-> "log", t |-> a.sessionEnd]
                       ELSE [from |-> "mtime", t |-> 0]]

\* syncAll's locals before line 228 has run
NoSynced == [kind |-> "object", map |-> NoEntries]

\* the three settings, each present or missing
Configs == [url : BOOLEAN, key : BOOLEAN, mid : BOOLEAN]

\* lines 336-338
configMissing(cfg) == ~cfg.url \/ ~cfg.key \/ ~cfg.mid

\* main that takes the exit of line 344 in a dry run as well
mustExitAlsoDry(dry, cfg) == configMissing(cfg)

\* main, lines 332-345: whether process.exit(1) is reached
mustExit(dry, cfg) == ~dry /\ configMissing(cfg)

\* a new process: the observation of the run is reset.  prevClean says that
\* the last non-dry run that got as far as syncAll ran to its end with every
\* uploadRecord returning normally and every markSynced leaving its entry in
\* the ledger file.
BeginRun(dry, cfg) ==
  /\ pc \in {"idle", "done", "rejected", "exited", "stopped"}
  /\ runs < MaxRuns
  /\ runs' = runs + 1
  /\ now' = now + 1
  /\ dryRun' = dry
  /\ missingConfig' = configMissing(cfg)
  /\ runParsed' = 0
  /\ machineId' = IF cfg.mid THEN "m1" ELSE IF dry THEN "dry-run" ELSE ""
  /\ prevClean' = IF pc = "done" /\ ~dryRun THEN runClean
                  ELSE IF pc \in {"done", "exited"} THEN prevClean
                  ELSE FALSE
  /\ runClean' = TRUE
  /\ runUploads' = 0
  /\ runMarks' = 0
  /\ ledgerAtStart' = ledger
  /\ remoteAtStart' = remote
  /\ lastOutcome' = "none"
  /\ inflight' = <<>>
  /\ UNCHANGED <<pureVars, hasProjectsDir, projectDirs, ledger, remote, uploadCalls,
                 okUploads, reuploaded, emptySeen, uploadAfterEmpty, ledgerAtIssue,
                 stoppedAfterUpload, uploadAfterOk>>

\* main, lines 335-345: process.exit(1)
ExitMissingConfig ==
  \E dry \in BOOLEAN, cfg \in Configs :
    /\ mustExit(dry, cfg)
    /\ BeginRun(dry, cfg)
    /\ pc' = "exited"
    /\ synced' = NoSynced
    /\ uploaded' = 0 /\ skipped' = 0 /\ pos' = 1

\* syncAll, lines 222-226: no projects directory
NoProjectsDir ==
  \E dry \in BOOLEAN, cfg \in Configs :
    /\ ~mustExit(dry, cfg)
    /\ ~hasProjectsDir
    /\ BeginRun(dry, cfg)
    /\ pc' = "done"
    /\ uploaded' = 0 /\ skipped' = 0 /\ pos' = 1
    /\ synced' = NoSynced

\* syncAll, lines 228-233
StartSync ==
  \E dry \in BOOLEAN, cfg \in Configs :
    /\ ~mustExit(dry, cfg)
    /\ hasProjectsDir
    /\ BeginRun(dry, cfg)
    /\ synced' = getAlreadySynced(ledger)
    /\ uploaded' = 0 /\ skipped' = 0 /\ pos' = 1
    /\ pc' = "walk"

AtFile == pc = "walk" /\ pos <= Len(WorkList)

\* line 246 throws: the promise of syncAll is rejected
LookupThrows ==
  /\ AtFile
  /\ lookupThrows(synced)
  /\ pc' = "rejected"
  /\ lastOutcome' = "threw"
  /\ runClean' = FALSE
  /\ UNCHANGED <<pureVars, fsVars, dryRun, machineId, missingConfig, synced, pos, uploaded, skipped, inflight,
                 runs, uploadCalls, okUploads, reuploaded, emptySeen,
                 uploadAfterEmpty, ledgerAtIssue, ledgerAtStart, remoteAtStart,
                 runUploads, runMarks, prevClean, runParsed,
                 stoppedAfterUpload, uploadAfterOk>>

\* lines 246-249
SkipSynced ==
  /\ AtFile
  /\ ~lookupThrows(synced)
  /\ isSynced(synced, currentId)
  /\ skipped' = skipped + 1
  /\ pos' = pos + 1
  /\ lastOutcome' = "skipped"
  /\ UNCHANGED <<pureVars, fsVars, pc, dryRun, machineId, missingConfig, synced, uploaded, inflight,
                 runs, uploadCalls, okUploads, reuploaded, emptySeen,
                 uploadAfterEmpty, ledgerAtIssue, ledgerAtStart, remoteAtStart,
                 runUploads, runMarks, runClean, prevClean, runParsed,
                 stoppedAfterUpload, uploadAfterOk>>

Unsynced == AtFile /\ ~lookupThrows(synced) /\ ~isSynced(synced, currentId)

\* the guard of line 266
marksEmptyAlways(dry) == TRUE

marksEmpty(dry) == ~dry

\* lines 265-269
SkipEmpty ==
  /\ Unsynced
  /\ isEmptySession(currentAgg)
  /\ runParsed' = runParsed + 1
  /\ IF marksEmpty(dryRun)
       THEN LET r == markSynced(ledger, currentId, now)
            IN /\ runMarks' = runMarks + 1
               /\ emptySeen' = emptySeen \cup {currentId}
               /\ ledger' = r.ledger
               /\ IF r.threw
                    THEN /\ pc' = "rejected"
                         /\ lastOutcome' = "threw"
                         /\ runClean' = FALSE
                         /\ UNCHANGED <<skipped, pos>>
                    ELSE /\ skipped' = skipped + 1
                         /\ pos' = pos + 1
                         /\ lastOutcome' = "empty"
                         /\ runClean' = (runClean /\ InLedger(r.ledger, currentId))
                         /\ UNCHANGED pc
       ELSE /\ skipped' = skipped + 1
            /\ pos' = pos + 1
            /\ lastOutcome' = "empty"
            /\ UNCHANGED <<ledger, pc, runMarks, emptySeen, runClean>>
  /\ UNCHANGED <<pureVars, hasProjectsDir, projectDirs, remote, now, dryRun, machineId, missingConfig,
                 synced, uploaded, inflight, runs, uploadCalls, okUploads,
                 reuploaded, uploadAfterEmpty, ledgerAtIssue, ledgerAtStart,
                 remoteAtStart, runUploads, prevClean, stoppedAfterUpload,
                 uploadAfterOk>>

\* lines 289-308
PrintDryRun ==
  /\ Unsynced
  /\ ~isEmptySession(currentAgg)
  /\ dryRun
  /\ runParsed' = runParsed + 1
  /\ uploaded' = uploaded + 1
  /\ pos' = pos + 1
  /\ lastOutcome' = "printed"
  /\ UNCHANGED <<pureVars, fsVars, pc, dryRun, machineId, missingConfig, synced, skipped, inflight,
                 runs, uploadCalls, okUploads, reuploaded, emptySeen,
                 uploadAfterEmpty, ledgerAtIssue, ledgerAtStart, remoteAtStart,
                 runUploads, runMarks, runClean, prevClean,
                 stoppedAfterUpload, uploadAfterOk>>

\* lines 310-311 and 203-213: uploadRecord is called and fetch is awaited
CallUpload ==
  /\ Unsynced
  /\ ~isEmptySession(currentAgg)
  /\ ~dryRun
  /\ inflight' = buildRecord(current, currentAgg, machineId)
  /\ pc' = "await"
  /\ uploadCalls' = [uploadCalls EXCEPT ![currentId] = @ + 1]
  /\ runUploads' = runUploads + 1
  /\ reuploaded' = IF InLedger(ledger, currentId)
                     THEN reuploaded \cup {currentId} ELSE reuploaded
  /\ uploadAfterEmpty' = IF currentId \in emptySeen
                           THEN uploadAfterEmpty \cup {currentId}
                           ELSE uploadAfterEmpty
  /\ ledgerAtIssue' = ledger
  /\ runParsed' = runParsed + 1
  /\ uploadAfterOk' = IF currentId \in okUploads
                        THEN uploadAfterOk \cup {currentId} ELSE uploadAfterOk
  /\ UNCHANGED <<pureVars, fsVars, dryRun, machineId, missingConfig, synced, pos,
                 uploaded, skipped, runs, okUploads, emptySeen, lastOutcome,
                 ledgerAtStart, remoteAtStart, runMarks, runClean, prevClean,
                 stoppedAfterUpload>>

\* the request of lines 204-213: a POST to /rest/v1/usage_records with no
\* on_conflict parameter in the URL
uploadRequest(rec) ==
  [method      |-> "POST",
   on_conflict |-> <<>>,
   prefer      |-> "resolution=merge-duplicates",
   body        |-> rec]

\* UNIQUE(machine_id, session_id) of usage_records
UniqueKey == <<"machine_id", "session_id">>

\* whether usage_records takes the row.  The body carries no id, so the
\* primary key is generated and never conflicts; a row with the same
\* (machine_id, session_id) is merged only when the request names that pair as
\* its conflict target, and violates the UNIQUE constraint otherwise.
storeAccepts(rows, req) ==
  \/ rows[req.body.session_id] = <<>>
  \/ req.on_conflict = UniqueKey /\ req.prefer = "resolution=merge-duplicates"

\* the store takes the row of the request
stored(rows, rec) == [rows EXCEPT ![rec.session_id] = rec]

\* the rows after the request has reached the store
storeAfter(rows, req) ==
  IF storeAccepts(rows, req) THEN stored(rows, req.body) ELSE rows

\* the response is ok: uploadRecord returns.  The call took some time.
FetchOk ==
  /\ pc = "await"
  /\ storeAccepts(remote, uploadRequest(inflight))
  /\ remote' = stored(remote, inflight)
  /\ now' \in {now, now + 1}
  /\ pc' = "resolved"
  /\ okUploads' = okUploads \cup {currentId}
  /\ UNCHANGED <<pureVars, hasProjectsDir, projectDirs, ledger, procVarsButPc,
                 runs, uploadCalls, reuploaded, emptySeen, uploadAfterEmpty,
                 lastOutcome, ledgerAtIssue, ledgerAtStart, remoteAtStart,
                 runUploads, runMarks, runClean, prevClean, runParsed,
                 stoppedAfterUpload, uploadAfterOk>>

\* lines 312-316, and 317-319 when markSynced throws
MarkUploaded ==
  /\ pc = "resolved"
  /\ LET r == markSynced(ledger, currentId, now)
     IN /\ ledger' = r.ledger
        /\ uploaded' = IF r.threw THEN uploaded ELSE uploaded + 1
        /\ lastOutcome' = IF r.threw THEN "failed" ELSE "uploaded"
        /\ runClean' = (runClean /\ ~r.threw /\ InLedger(r.ledger, currentId))
  /\ runMarks' = runMarks + 1
  /\ pos' = pos + 1
  /\ pc' = "walk"
  /\ inflight' = <<>>
  /\ UNCHANGED <<pureVars, hasProjectsDir, projectDirs, remote, now, dryRun, machineId, missingConfig,
                 synced, skipped, runs, uploadCalls, okUploads, reuploaded,
                 emptySeen, uploadAfterEmpty, ledgerAtIssue, ledgerAtStart,
                 remoteAtStart, runUploads, prevClean, runParsed, stoppedAfterUpload,
                 uploadAfterOk>>

\* a catch block that marks the session all the same
onUploadErrorMarks(l, id, t) == markSynced(l, id, t).ledger

\* lines 317-319: the error is logged; the ledger file afterwards
onUploadError(l, id, t) == l

\* uploadRecord throws and line 317 catches it
UploadFailed ==
  /\ lastOutcome' = "failed"
  /\ ledger' = onUploadError(ledger, currentId, now)
  /\ runClean' = FALSE
  /\ pos' = pos + 1
  /\ pc' = "walk"
  /\ inflight' = <<>>
  /\ UNCHANGED <<pureVars, hasProjectsDir, projectDirs, now, dryRun, machineId, missingConfig,
                 synced, uploaded, skipped, runs, uploadCalls, okUploads,
                 reuploaded, emptySeen, uploadAfterEmpty, ledgerAtIssue,
                 ledgerAtStart, remoteAtStart, runUploads, runMarks, prevClean,
                 runParsed, stoppedAfterUpload, uploadAfterOk>>

\* lines 215-218: the response is not ok
FetchNotOk ==
  /\ pc = "await"
  /\ UploadFailed
  /\ UNCHANGED remote

\* fetch rejects (a network error); the request may have reached the store
FetchRejects ==
  /\ pc = "await"
  /\ UploadFailed
  /\ remote' \in {remote, storeAfter(remote, uploadRequest(inflight))}

\* the process is stopped from outside (a kill, a power cut) while an upload
\* is awaited or has just returned; a request that is in flight may still
\* reach the store.  (A stop between two files leaves nothing half done.)
Stop ==
  /\ pc \in {"await", "resolved"}
  /\ pc' = "stopped"
  /\ remote' \in IF pc = "await"
                   THEN {remote, storeAfter(remote, uploadRequest(inflight))}
                   ELSE {remote}
  /\ stoppedAfterUpload' = IF pc = "resolved"
                             THEN stoppedAfterUpload \cup {currentId}
                             ELSE stoppedAfterUpload
  /\ lastOutcome' = "stopped"
  /\ runClean' = FALSE
  /\ inflight' = <<>>
  /\ UNCHANGED <<pureVars, hasProjectsDir, projectDirs, ledger, now, dryRun,
                 machineId, missingConfig, synced, pos, uploaded, skipped, runs,
                 uploadCalls, okUploads, reuploaded, emptySeen, uploadAfterEmpty,
                 ledgerAtIssue, ledgerAtStart, remoteAtStart, runUploads,
                 runMarks, prevClean, runParsed, uploadAfterOk>>

\* lines 324-328: both loops are done
Summary ==
  /\ pc = "walk"
  /\ pos > Len(WorkList)
  /\ pc' = "done"
  /\ UNCHANGED <<pureVars, fsVars, dryRun, machineId, missingConfig, synced, pos, uploaded, skipped,
                 inflight, obsVars>>

DriverStart ==
  /\ \/ hasProjectsDir = TRUE /\ projectDirs \in Listings
     \/ hasProjectsDir = FALSE /\ projectDirs = <<>>
  /\ ledger \in { [kind |-> k, map |-> NoEntries] : k \in LedgerKinds }
  /\ remote = NoRows
  /\ now = 1
  /\ pc = "idle"
  /\ dryRun = FALSE
  /\ machineId = ""
  /\ missingConfig = TRUE
  /\ synced = NoSynced
  /\ pos = 1
  /\ uploaded = 0
  /\ skipped = 0
  /\ inflight = <<>>
  /\ runs = 0
  /\ uploadCalls = NoCalls
  /\ okUploads = {}
  /\ reuploaded = {}
  /\ emptySeen = {}
  /\ uploadAfterEmpty = {}
  /\ lastOutcome = "none"
  /\ ledgerAtIssue = ledger
  /\ ledgerAtStart = ledger
  /\ remoteAtStart = remote
  /\ runUploads = 0
  /\ runMarks = 0
  /\ runClean = FALSE
  /\ prevClean = FALSE
  /\ runParsed = 0
  /\ stoppedAfterUpload = {}
  /\ uploadAfterOk = {}

\* the driver is not run
DriverIdle ==
  /\ DriverStart
  /\ hasProjectsDir = FALSE
  /\ ledger.kind = "absent"

DriverNext ==
  \/ ExitMissingConfig
  \/ NoProjectsDir
  \/ StartSync
  \/ LookupThrows
  \/ SkipSynced
  \/ SkipEmpty
  \/ PrintDryRun
  \/ CallUpload
  \/ FetchOk
  \/ MarkUploaded
  \/ FetchNotOk
  \/ FetchRejects
  \/ Stop
  \/ Summary

InitCost   == CostStart /\ FamilyStart /\ ParseStart /\ DriverIdle
NextCost   == IncreaseTokens
SpecCost   == InitCost /\ [][NextCost]_vars

InitFamily == CostIdle /\ FamilyStart /\ ParseStart /\ DriverIdle
NextFamily == AppendFragment
SpecFamily == InitFamily /\ [][NextFamily]_vars

InitParse  == CostIdle /\ FamilyStart /\ ParseStart /\ DriverIdle
NextParse  == AppendLine
SpecParse  == InitParse /\ [][NextParse]_vars

Init == CostIdle /\ FamilyStart /\ ParseStart /\ DriverStart
Next == DriverNext
Spec == Init /\ [][Next]_vars

(***************************************************************************)
(* Properties of the pure functions                                        *)
(***************************************************************************)
RECURSIVE SumOver(_, _)
\* the sum of g[x] over the finite set S
SumOver(S, g) ==
  IF S = {} THEN 0
  ELSE LET x == CHOOSE x \in S : TRUE IN g[x] + SumOver(S \ {x}, g)

RECURSIVE AllEntries(_)
\* every usage-bearing entry of the parseable lines, in file order
AllEntries(ls) ==
  IF ls = <<>> THEN <<>>
  ELSE (IF ls[1].ok THEN usageEntries(ls[1]) ELSE <<>>) \o AllEntries(Tail(ls))

IdsOf(es) == { es[i].requestId : i \in 1..Len(es) }

LastOf(es, id) ==
  es[CHOOSE i \in 1..Len(es) :
       /\ es[i].requestId = id
       /\ \A j \in (i + 1)..Len(es) : es[j].requestId # id]

CountOf(obj, family) ==
  IF \E i \in 1..Len(obj) : obj[i].family = family
    THEN (CHOOSE e \in { obj[i] : i \in 1..Len(obj) } : e.family = family).n
    ELSE 0

\* C6: deduplication by request id is keep-last: every total of the aggregate
\* is the sum, over the distinct request ids of the file, of that field in the
\* LAST usage-bearing entry with the id (never the first, never the sum of
\* both), and each family's request count is the number of distinct ids whose
\* last entry has a model of that family.
C6_KeepLastDedup ==
  LET es  == AllEntries(lines)
      ids == IdsOf(es)
  IN /\ \A f \in UsageFields :
          agg.totalUsage[f] = SumOver(ids, [id \in ids |-> tok(LastOf(es, id).usage, f)])
     /\ \A fam \in Families :
          CountOf(agg.modelCount, fam) =
            Cardinality({ id \in ids :
                            getModelFamily(orUnknown(LastOf(es, id).model)) = fam })
     /\ Len(agg.modelCount) <= Cardinality(ids)

\* C6 witness: two direct-shape lines with the same request id and different
\* usage have been parsed, and the totals are those of the second line.
C6_Witness ==
  /\ Len(lines) = 2
  /\ lines[1].direct = <<[requestId |-> "r1", usage |-> Ua, model |-> M_opus]>>
  /\ lines[2].direct = <<[requestId |-> "r1", usage |-> Ub, model |-> M_sonnet]>>
  /\ lines[1].nested = <<>> /\ lines[2].nested = <<>>
  /\ agg.totalUsage = [input_tokens |-> 3, output_tokens |-> 0,
                       cache_creation_input_tokens |-> 0,
                       cache_read_input_tokens |-> 2]
  /\ agg.modelCount = <<[family |-> "claude-sonnet-4", n |-> 1]>>

\* the usage tuple before the last IncreaseTokens step
PrevUsage == [cUsage EXCEPT ![cField] = @ - 1]

\* C7 (as claimed): raising any one of the four token counts never lowers the
\* cost.
C7_MonotonicInEveryCount == cCost >= cPrevCost

\* C7 (amended): raising input_tokens, output_tokens or
\* cache_creation_input_tokens never lowers the cost; raising
\* cache_read_input_tokens never lowers it when the normal-input component is
\* already 0 (input - cache_read - cache_creation <= 0), and never raises it
\* when that difference is positive.
C7_MonotonicExceptCacheRead ==
  cField # "none" =>
    /\ cField # "cache_read_input_tokens" => cCost >= cPrevCost
    /\ (cField = "cache_read_input_tokens" /\ normalInput(PrevUsage) <= 0)
         => cCost >= cPrevCost
    /\ (cField = "cache_read_input_tokens" /\ normalInput(PrevUsage) > 0)
         => cCost <= cPrevCost

\* C7 witness: cache_creation_input_tokens was raised while normal input was
\* positive, and the cost went up.
C7_Witness ==
  /\ cField = "cache_creation_input_tokens"
  /\ normalInput(PrevUsage) > 0
  /\ cCost > cPrevCost

\* C8: the cost is never negative, and when cache_read + cache_creation >
\* input_tokens the normal-input component is 0 and the cost is the rounded sum
\* of the cache-write, cache-read and output components alone.
C8_NeverNegative ==
  LET p == IF cFamily \in DOMAIN PRICING THEN PRICING[cFamily] ELSE PRICING["default"]
  IN /\ cCost >= 0
     /\ (cUsage.cache_read_input_tokens + cUsage.cache_creation_input_tokens
           > cUsage.input_tokens)
          => /\ inputComponent(cUsage, p) = 0
             /\ cCost = MathRound100(
                          cUsage.cache_creation_input_tokens * p.cache_write
                          + cUsage.cache_read_input_tokens * p.cache_read
                          + cUsage.output_tokens * p.output)

\* C8 witness: cache tokens exceed a non-zero input count and the cost is
\* positive.
C8_Witness ==
  /\ cUsage.input_tokens > 0
  /\ cUsage.cache_read_input_tokens + cUsage.cache_creation_input_tokens
       > cUsage.input_tokens
  /\ cCost > 0

FilesOfId(id) == { i \in 1..Len(WorkList) : sessionIdOf(WorkList[i].file) = id }

\* the session id has a file, and no file of it is empty by the test of
\* line 265
NonEmptySession(id) ==
  /\ FilesOfId(id) # {}
  /\ \A i \in FilesOfId(id) :
       ~isEmptySession(parseSessionFile(WorkList[i].file.content))

\* C1: once a session id is present in the ledger file, uploadRecord is never
\* called for that session id again, also within the run that recorded it
\* (the same <sessionId>.jsonl under two project directories).
C1_NoUploadOnceInLedger == reuploaded = {}

\* C2: after a non-dry run that ran to its end with every upload succeeding
\* and every ledger write leaving its entry in the ledger file, a following
\* run makes no uploadRecord call, processes nothing, and at its end has
\* counted every .jsonl file as skipped.
C2_RerunIdempotent ==
  (prevClean /\ pc \in {"walk", "await", "resolved", "done", "rejected"}) =>
    /\ runUploads = 0
    /\ uploaded = 0
    /\ pc \in {"walk", "done"}
    /\ pc = "done" => skipped = Len(WorkList)

\* C2 witness: a non-dry run after a clean run that uploaded something has
\* ended, with at least two files skipped.
C2_Witness ==
  /\ prevClean
  /\ ~dryRun
  /\ pc = "done"
  /\ okUploads # {}
  /\ skipped >= 2

C4_DryRunWritesNothing ==
  dryRun =>
    /\ runUploads = 0
    /\ runMarks = 0
    /\ ledger = ledgerAtStart
    /\ remote = remoteAtStart
    /\ pc \notin {"await", "resolved"}

\* C4 witness: a dry run has ended after printing a non-empty session and
\* skipping an empty one that the ledger does not hold.
C4_Witness ==
  /\ dryRun
  /\ pc = "done"
  /\ uploaded >= 1
  /\ skipped >= 1
  /\ \A id \in SessionIds : ~InLedger(ledger, id)

\* C5: a session that a non-dry run found empty (input and output totals 0)
\* has a ledger entry from then on, and no uploadRecord call is made for it
\* afterwards, in that run or a later one.
C5_EmptyMarkedNeverUploaded ==
  \A id \in emptySeen :
    /\ InLedger(ledger, id)
    /\ id \notin uploadAfterEmpty

\* C10: whatever the ledger file holds, syncAll runs to its end: its promise
\* is never rejected.
C10_LedgerNeverFatal == pc # "rejected"

\* C11: a non-dry process with the URL, the key or the machine id missing
\* exits at line 344 and nothing else does: when it has exited, no file was
\* parsed, no uploadRecord or markSynced call was made and ledger and store are
\* as they were; a dry run with a setting missing does not exit there.
C11_MissingConfigExits ==
  pc # "idle" =>
    /\ (~dryRun /\ missingConfig) <=> pc = "exited"
    /\ pc = "exited" =>
         /\ runParsed = 0 /\ runUploads = 0 /\ runMarks = 0
         /\ ledger = ledgerAtStart /\ remote = remoteAtStart

\* C11 witness: a non-dry process has exited for missing configuration although
\* a session with usage was waiting that the ledger does not hold.
C11_Witness ==
  /\ pc = "exited"
  /\ ~dryRun /\ missingConfig
  /\ \E i \in 1..Len(WorkList) :
       /\ ~isEmptySession(parseSessionFile(WorkList[i].file.content))
       /\ ~InLedger(ledger, sessionIdOf(WorkList[i].file))

\* C12: uploads are upserts on (machine_id, session_id): a request for a
\* session whose row is already in the store names that pair as its conflict
\* key, and the store takes it (merging into the row).
C12_UpsertOnSessionKey ==
  (pc = "await" /\ remote[inflight.session_id] # <<>>) =>
    /\ uploadRequest(inflight).on_conflict = UniqueKey
    /\ storeAccepts(remote, uploadRequest(inflight))

\* C13: when a non-dry syncAll has ended, every .jsonl file whose session id
\* the ledger did not hold at the start has been processed, whatever happened
\* to the files before it, and no more uploadRecord calls were made than files
\* were visited (no retry inside the run).
C13_FailureIsolation ==
  (~dryRun /\ pc \in {"walk", "await", "resolved", "done", "rejected"}) =>
    /\ runUploads <= (IF pc \in {"await", "resolved"} THEN pos ELSE pos - 1)
    /\ pc \in {"done", "rejected"} =>
         \A i \in 1..Len(WorkList) :
           ~InLedger(ledgerAtStart, sessionIdOf(WorkList[i].file)) => i < pos

\* no session id names two files of the walk
NoDuplicateIds == \A id \in SessionIds : Cardinality(FilesOfId(id)) <= 1

\* the ledger file is absent, unreadable, or the JSON object the driver writes
LedgerIsMap == ledger.kind \in {"absent", "garbage", "object"}

C15_RetryUntilUploaded ==
  \A id \in SessionIds :
    /\ (id \in okUploads /\ id \notin stoppedAfterUpload
          /\ ~(pc = "resolved" /\ currentId = id))
         => InLedger(ledger, id)
    /\ id \in uploadAfterOk => id \in stoppedAfterUpload

\* C16: no step of the driver removes a ledger entry or changes its
\* timestamp.
C16_LedgerWriteOnce ==
  [][\A id \in SessionIds :
       InLedger(ledger, id) =>
         /\ InLedger(ledger', id)
         /\ ledger'.map[id] = ledger.map[id]]_vars

\* C17: a session that syncAll has just marked synced without uploading it has
\* all four aggregated totals zero and a total cost of zero.
C17_OnlyNoUsageSkipped ==
  (~dryRun /\ lastOutcome = "empty" /\ pc \in {"walk", "done"}) =>
    LET a == parseSessionFile(WorkList[pos - 1].file.content)
    IN /\ \A f \in UsageFields : a.totalUsage[f] = 0
       /\ a.totalCost = 0

(***************************************************************************)
(* Further properties of the session parser                                *)
(***************************************************************************)
\* the timestamps of the parseable lines that carry one
TimestampsOf(ls) ==
  { ls[i].timestamp : i \in { j \in 1..Len(ls) : ls[j].ok /\ ls[j].timestamp # 0 } }

MinOf(S) == CHOOSE x \in S : \A y \in S : x <= y
MaxOf(S) == CHOOSE x \in S : \A y \in S : y <= x

\* C18: sessionStart is the earliest and sessionEnd the latest timestamp among
\* the parseable lines that carry one, in whatever order the lines stand (both
\* unset when no line carries one), so that sessionStart <= sessionEnd.
C18_StartEarliestEndLatest ==
  LET ts == TimestampsOf(lines)
  IN IF ts = {} THEN agg.sessionStart = 0 /\ agg.sessionEnd = 0
     ELSE /\ agg.sessionStart = MinOf(ts)
          /\ agg.sessionEnd = MaxOf(ts)
          /\ agg.sessionStart <= agg.sessionEnd

\* the place of request id in the iteration order of the request map: where
\* the id occurred first
FirstIndex(es, id) ==
  CHOOSE i \in 1..Len(es) :
    /\ es[i].requestId = id
    /\ \A j \in 1..(i - 1) : es[j].requestId # id

\* the family of the retained request with the id
FamilyOfId(es, id) == getModelFamily(orUnknown(LastOf(es, id).model))

\* the retained requests of the family
IdsOfFamily(es, fam) == { id \in IdsOf(es) : FamilyOfId(es, id) = fam }

\* where the first retained request of the family stands in the request map
FirstOfFamily(es, fam) ==
  MinOf({ FirstIndex(es, id) : id \in IdsOfFamily(es, fam) })

RECURSIVE SumN(_)
\* the sum of the values of a modelCount / modelCost object
SumN(obj) == IF obj = <<>> THEN 0 ELSE obj[1].n + SumN(Tail(obj))

ParseableLines(ls) == SelectSeq(ls, LAMBDA l : l.ok)

\* C21: an unparseable line has no effect: the aggregate of a file (totals,
\* cost, per-family counts and costs, primary model, session start and end) is
\* the aggregate of the file with its unparseable lines removed, so the lines
\* after an unparseable one are parsed as if it were not there.
C21_MalformedLineSkipped ==
  agg = parseSessionFile(ParseableLines(lines))

\* C21 witness: an unparseable line stands between two lines with usage and a
\* timestamp, and the aggregate holds both requests and both timestamps.
C21_Witness ==
  /\ Len(lines) = 3
  /\ lines[1].ok /\ ~lines[2].ok /\ lines[3].ok
  /\ usageEntries(lines[1]) # <<>> /\ usageEntries(lines[3]) # <<>>
  /\ usageEntries(lines[1])[1].requestId # usageEntries(lines[3])[1].requestId
  /\ SumN(agg.modelCount) = 2
  /\ agg.sessionStart = lines[1].timestamp /\ agg.sessionStart # 0
  /\ agg.sessionEnd = lines[3].timestamp /\ agg.sessionEnd # 0

\* C22: every record handed to uploadRecord comes from a session with usage
\* and is complete: input_tokens > 0 or output_tokens > 0; session_id is the
\* name of the .jsonl file without the extension; machine_id is set; model is
\* one of the family keys; session_start and session_end are the timestamps
\* of the log, or the file's creation and modification time when no line of
\* the log carries a timestamp.
C22_RecordComplete ==
  pc \in {"await", "resolved"} =>
    /\ inflight.input_tokens > 0 \/ inflight.output_tokens > 0
    /\ current.file.ext = "jsonl"
    /\ inflight.session_id = current.file.base
    /\ inflight.machine_id = "m1"
    /\ inflight.model \in Families
    /\ IF TimestampsOf(current.file.content) # {}
         THEN /\ inflight.session_start.from = "log"
              /\ inflight.session_start.t \in TimestampsOf(current.file.content)
              /\ inflight.session_end.from = "log"
              /\ inflight.session_end.t \in TimestampsOf(current.file.content)
         ELSE /\ inflight.session_start.from = "birthtime"
              /\ inflight.session_end.from = "mtime"

\* C22 witness: the record of a session whose log has no timestamp and whose
\* request names no model is in flight, with the file times and the default
\* family.
C22_Witness ==
  /\ pc = "await"
  /\ TimestampsOf(current.file.content) = {}
  /\ inflight.session_start.from = "birthtime"
  /\ inflight.session_end.from = "mtime"
  /\ inflight.model = "default"
  /\ inflight.input_tokens > 0

====
